---- MODULE Spec2Model ----
(***************************************************************************)
(* djmarinara: the buffer control loop of src/src/djmarinara/djmarinara.py *)
(* as a state machine.                                                     *)
(*                                                                         *)
(* Time is the wall clock in whole seconds.  Text is a sequence of         *)
(* one-character strings, so that str(), split() and lower() are computed *)
(* as Python computes them.  The served directory (/media) is the pair     *)
(* chain (the playlist<N>.txt files) and media (the media<N>.flv files)    *)
(* plus startup (startup.flv); workdir is the encoder's working directory. *)
(* One process run is modelled, started on an empty served directory       *)
(* (Spec) or on the directory an earlier run has left (SpecRestart); the   *)
(* served directory has no other writer (spec section 5).                  *)
(***************************************************************************)
EXTENDS Integers, Sequences, FiniteSets, TLC

\* ------------------------------------------------------------------ bounds

\* Appends per run: no encode succeeds once filenumber = MaxId.
MaxId == 4
\* Failures of shutil.copy per run.
MaxCopyFails == 1

\* ------------------------------------------------------- program constants

gastanklimit == 3600
mincrf == 17
maxcrf == 28
targetspeed == 2
MaxPreset == 8
Retention == 5400

\* A length limit of the whole tank.
WholeTank == gastanklimit

\* maxlength = gastanklimit / 2.0
maxlength == gastanklimit \div 2

\* ------------------------------------------------------------------- text

\* bytes.__repr__ escapes a newline as backslash, n.  The bodies of the
\* model hold no other character that repr escapes, and no quote.
RECURSIVE Escape(_)
Escape(s) ==
    IF s = <<>> THEN <<>>
    ELSE (IF Head(s) = "\n" THEN <<"\\", "n">> ELSE <<Head(s)>>) \o Escape(Tail(s))

\* str(buf) of a bytes object: b'...'
StrOfBytes(buf) == <<"b", "'">> \o Escape(buf) \o <<"'">>

\* str.split(sep), every piece, empty ones too, for a separator whose
\* occurrences cannot overlap.
Split(s, sep) ==
    LET hits == {i \in 1..(Len(s) - Len(sep) + 1) : SubSeq(s, i, i + Len(sep) - 1) = sep}
        hit(j) == CHOOSE i \in hits : Cardinality({h \in hits : h < i}) = j - 1
        n == Cardinality(hits)
    IN  [j \in 1..(n + 1) |->
            SubSeq(s, IF j = 1 THEN 1 ELSE hit(j - 1) + Len(sep),
                      IF j = n + 1 THEN Len(s) ELSE hit(j) - 1)]

Last(q) == q[Len(q)]

\* str.lower() on the alphabet of the model.
LowerChar(c) ==
    CASE c = "M" -> "m"
      [] c = "P" -> "p"
      [] c = "E" -> "e"
      [] c = "X" -> "x"
      [] OTHER -> c

Lower(s) == [i \in 1..Len(s) |-> LowerChar(s[i])]

EndsWith(s, suf) ==
    Len(suf) <= Len(s) /\ SubSeq(s, Len(s) - Len(suf) + 1, Len(s)) = suf

\* ------------------------------------------------------------ environment

\* The remote candidate list: the bodies the URL may serve.  Body1 is the
\* list ["http://x/a.mp3", "http://x/b.exe"]; Body2 has allow-listed
\* entries in the middle, one in upper case, an archive, and ends with a
\* newline.
HostX == <<"h", "t", "t", "p", ":", "/", "/", "x", "/">>
NL == <<"\n">>
Body1 == HostX \o <<"a", ".", "m", "p", "3">> \o NL \o HostX \o <<"b", ".", "e", "x", "e">>
Body2 ==
    HostX \o <<"b", ".", "e", "x", "e">> \o NL \o HostX \o <<"c", ".", "M", "P", "3">>
        \o NL \o HostX \o <<"b", ".", "e", "x", "e">>
        \o NL \o HostX \o <<"z", ".", "z", "i", "p">> \o NL
RemoteBodies == {Body1, Body2}

\* Seconds a fetch of the list takes (more than the clock's resolution).
FetchTimes == {1}
\* What a successful acquisition and encode may yield: the duration of the
\* segment and the wall time processFile took (ratios 0.03 and 30), and a
\* source whose probed duration is over maxlength.
Encodes ==
    { [duration |-> 120, processtook |-> 4000],
      [duration |-> 1800, processtook |-> 60],
      [duration |-> 3000, processtook |-> 60] }
\* The filesystem of the served directory, in percent of its size: what
\* other data uses, and what one segment video uses.
OtherUsed == {0, 70, 85}
Disk == [total |-> 100, segment |-> 5]

\* ------------------------------------------------------------------ files

\* playlist<N>.txt and media<N>.flv are represented by N: the served
\* directory's path holds no digit, so the digits of a path are N's.
StartupAsset == [kind |-> "startup", n |-> 0]
MediaAsset(n) == [kind |-> "media", n |-> n]
\* A chain file: "file <asset>" and "file playlist<next>.txt".
ChainFile(asset, next) == [asset |-> asset, next |-> next]
\* A chain file that is open for writing and not yet flushed.
EmptyFile == [asset |-> [kind |-> "none", n |-> 0], next |-> -1]

\* Files of the working directory.
WorkFile(kind, n, name) == [kind |-> kind, n |-> n, name |-> name]
FontFile == WorkFile("static", 0, <<"font.ttf">>)
ProgramFile == WorkFile("static", 0, <<"djmarinara.py">>)
OutAac == WorkFile("aac", 0, <<"out.aac">>)
PlayFile(n) == WorkFile("flv", n, <<"media">>)
TextFile(n) == WorkFile("txt", n, <<"media">>)
manifest == {FontFile, ProgramFile}

Put(f, k, v) == [x \in DOMAIN f \cup {k} |-> IF x = k THEN v ELSE f[x]]
Remove(f, k) == [x \in DOMAIN f \ {k} |-> f[x]]
EmptyDir == [x \in {} |-> 0]

SetMax(S) == CHOOSE x \in S : \A y \in S : y <= x
SetMin(S) == CHOOSE x \in S : \A y \in S : x <= y

\* sort(key=naturalKeys) of the files named by the ids S: the key of
\* "<path><N><ext>" is [<path>, N, <ext>], so the order is that of N.
RECURSIVE NaturalSort(_)
NaturalSort(S) ==
    IF S = {} THEN <<>> ELSE <<SetMin(S)>> \o NaturalSort(S \ {SetMin(S)})

\* getFileNumber: the number of the last *.txt of the served directory, 0
\* when it is 1 or when there is none.
getFileNumber(ch) ==
    IF DOMAIN ch = {} THEN 0
    ELSE LET lastnumber == Last(NaturalSort(DOMAIN ch))
         IN  IF lastnumber = 1 THEN 0 ELSE lastnumber

\* --------------------------------------------------------- pure functions

extensions ==
    { <<"z", "i", "p">>, <<"x", "m">>, <<"i", "t">>, <<"s", "3", "m">>,
      <<"m", "o", "d">>, <<"m", "p", "3">>, <<"m", "p", "4">>,
      <<"f", "l", "a", "c">>, <<"m", "4", "a">>, <<"a", "a", "c">>,
      <<"f", "l", "v">>, <<"3", "g", "p">>, <<"o", "g", "g">>, <<"r", "a">>,
      <<"r", "m">> }

\* updatePlaylist: lines = inputlist.split("\\n") of inputlist = str(buf).
SplitLines(b) == Split(StrOfBytes(b), <<"\\", "n">>)
\* extension = choice.split(".")[-1].lower()
Extension(line) == Lower(Last(Split(line, <<".">>)))
\* processFile: filename = file.split("/")[-1].lower()
FileName(line) == Lower(Last(Split(line, <<"/">>)))
\* processFile: protocol = file.split("://")[0]
Protocol(line) == Split(line, <<":", "/", "/">>)[1]
\* urlopen opens the schemes it has a handler for.
Openable(line) ==
    Protocol(line) \in { <<"h", "t", "t", "p">>, <<"h", "t", "t", "p", "s">>,
                         <<"f", "t", "p">> }

\* updatePlaylist: extension not in self.extensions
Allowed(line) == Extension(line) \in extensions

\* Why processFile returns 0 before it copies anything: urlopen raising,
\* processZip returning "", convertFile returning {} for a missing title or
\* duration, for a duration over maxlength, for an encode of size zero.
SkipReasons(line) ==
    IF ~Openable(line) THEN {"urlopen"}
    ELSE {"urlopen", "probe", "toolong", "zerobyte"}
             \cup (IF EndsWith(FileName(line), <<".", "z", "i", "p">>) THEN {"zip"} ELSE {})

\* random.choice(lines): what updatePlaylist and processFile compute of
\* the line drawn.
Candidates(ls) ==
    { [line |-> ls[i], allowed |-> Allowed(ls[i]), openable |-> Openable(ls[i]),
       reasons |-> SkipReasons(ls[i])] : i \in 1..Len(ls) }

\* A controller without clamp: n as it is.
Unclamped(n, minn, maxn) == n

Min2(a, b) == IF a < b THEN a ELSE b
Max2(a, b) == IF a > b THEN a ELSE b
\* clamp: max(min(maxn, n), minn)
clamp(n, minn, maxn) == Max2(Min2(maxn, n), minn)

\* A controller whose preset has no dead band.
QualityUpdateNoBand(c, p, duration, processtook) ==
    [crf |-> Max2(Min2(maxcrf, IF duration < targetspeed * processtook THEN c + 1
                               ELSE IF duration > targetspeed * processtook THEN c - 1
                               ELSE c), mincrf),
     preset |-> IF duration < targetspeed * processtook /\ p > 0 THEN p - 1
                ELSE IF duration > targetspeed * processtook /\ p < MaxPreset THEN p + 1
                ELSE p]

\* processFile, the quality controller: ratio = duration / processtook,
\* compared without division (processtook > 0).
QualityUpdate(c, p, duration, processtook) ==
    LET c1 == IF duration < targetspeed * processtook THEN c + 1
              ELSE IF duration > targetspeed * processtook THEN c - 1
              ELSE c
        p1 == IF 2 * duration < (2 * targetspeed - 1) * processtook /\ p > 0
              THEN p - 1
              ELSE IF 2 * duration > (2 * targetspeed + 1) * processtook /\ p < MaxPreset
              THEN p + 1
              ELSE p
    IN  [crf |-> clamp(c1, mincrf, maxcrf), preset |-> p1]

\* A threshold of 90 percent.
OverNinety(du) == du.used * 10 > 9 * du.total

\* cleanCache: (diskusage.used / diskusage.total) > 0.8
OverThreshold(du) == du.used * 10 > 8 * du.total

\* ------------------------------------------------------------------ state

VARIABLES
    pc,          \* where the process is: the method about to run
    now,         \* time.time()
    starttime,   \* self.starttime
    elapsedtime, \* self.elapsedtime
    gastank,     \* self.gastank
    listhash,    \* self.listhash
    filenumber,  \* self.filenumber
    crf,         \* self.crf
    preset,      \* self.preset
    lines,       \* updatePlaylist: inputlist.split("\\n") of the body read
    candidates,  \* updatePlaylist: Candidates(lines), tabulated at the split
    choice,      \* updatePlaylist: the line random.choice drew last
    filedata,    \* processFile: duration, processtook, playfile, chain text
    filelist,    \* cleanCache: what is left of the sorted glob
    chain,       \* /media/playlist<N>.txt: N -> content
    media,       \* /media/media<N>.flv: N -> st_mtime
    startup,     \* /media/startup.flv exists
    workdir,     \* the files of the working directory
    otherused,   \* percent of the disk that other data uses
    lasttick,    \* wall time of the last checkGas (of initRun before it)
    slept,       \* the last playlistCheck ended in time.sleep
    sleepfor,    \* the argument of the last time.sleep
    allocated,   \* the ids appended in this run, in order
    exc,         \* the call whose exception ended the process
    copyfails    \* how often shutil.copy has failed

vars ==
    << pc, now, starttime, elapsedtime, gastank, listhash, filenumber, crf,
       preset, lines, candidates, choice, filedata, filelist, chain, media, startup,
       workdir, otherused, lasttick, slept, sleepfor, allocated, exc,
       copyfails >>

controller == << listhash, gastank, elapsedtime, filenumber, crf, preset >>
served == << chain, media, startup >>
locals == << lines, candidates, choice, filedata, filelist >>
observed == << lasttick, slept, sleepfor, allocated, exc, copyfails >>

NoData == [duration |-> 0, processtook |-> 0, playfile |-> 0, text |-> EmptyFile]

\* shutil.disk_usage of the served directory.
DiskUsage ==
    [used |-> otherused + Disk.segment * Cardinality(DOMAIN media),
     total |-> Disk.total]

\* hashlib.md5(buf).hexdigest(): one digest per body, none of them "".
Md5(b) ==
    CASE b = Body1 -> "d1"
      [] b = Body2 -> "d2"

\* __init__ and initRun on an empty served directory.
Init ==
    /\ pc = "sanityCheck"
    /\ now = 0
    /\ starttime = 0
    /\ elapsedtime = 0
    /\ gastank = 0
    /\ listhash = ""
    /\ crf = 17
    /\ preset = 0
    /\ chain = EmptyDir
    /\ media = EmptyDir
    /\ startup = FALSE
    /\ filenumber = getFileNumber(chain)
    /\ lines = <<>>
    /\ candidates = {}
    /\ choice = <<>>
    /\ filedata = NoData
    /\ filelist = <<>>
    /\ workdir = manifest
    /\ otherused \in OtherUsed
    /\ lasttick = 0
    /\ slept = FALSE
    /\ sleepfor = 0
    /\ allocated = <<>>
    /\ exc = "none"
    /\ copyfails = 0

\* ------------------------------------------------------------ sanityCheck

\* An entry file that points at itself.
BootstrapSelfLoop(ch) ==
    Put(Put(ch, 0, ChainFile(StartupAsset, 0)), 1, ChainFile(StartupAsset, 0))

\* sanityCheck: playlist0.txt and playlist1.txt as written at lines 85-94.
BootstrapChain(ch) ==
    Put(Put(ch, 0, ChainFile(StartupAsset, 1)), 1, ChainFile(StartupAsset, 0))

\* sanityCheck, the startup video present or downloaded.
sanityCheck ==
    /\ pc = "sanityCheck"
    /\ chain' = IF 0 \notin DOMAIN chain THEN BootstrapChain(chain) ELSE chain
    /\ filenumber' = IF 0 \notin DOMAIN chain \/ ~startup THEN 0 ELSE filenumber
    /\ startup' = TRUE
    /\ pc' = "playlistCheck"
    /\ UNCHANGED << now, starttime, elapsedtime, gastank, listhash, crf, preset,
                    media, workdir, otherused, locals, observed >>

\* sanityCheck, urlopen(self.startupvideo) raising: nothing catches it.
sanityCheckFails ==
    /\ pc = "sanityCheck"
    /\ ~startup
    /\ chain' = IF 0 \notin DOMAIN chain THEN BootstrapChain(chain) ELSE chain
    /\ filenumber' = IF 0 \notin DOMAIN chain THEN 0 ELSE filenumber
    /\ pc' = "terminated"
    /\ exc' = "startupvideo"
    /\ UNCHANGED << now, starttime, elapsedtime, gastank, listhash, crf, preset,
                    media, startup, workdir, otherused, locals, lasttick, slept,
                    sleepfor, allocated, copyfails >>

\* ---------------------------------------------------------- playlistCheck

\* A gas tank that stops at empty.
CheckGasClamped(t) ==
    LET newelapsed == t - starttime
        gasused == newelapsed - elapsedtime
    IN  [gastank |-> Max2(0, gastank - gasused), elapsedtime |-> newelapsed]

\* checkGas at wall time t: the new gastank and elapsedtime.
CheckGas(t) ==
    LET newelapsed == t - starttime
        gasused == newelapsed - elapsedtime
    IN  [gastank |-> gastank - gasused, elapsedtime |-> newelapsed]

\* An admission that does not look at the level.
AdmitAlways(level) == TRUE

\* playlistCheck: elif self.checkGas() < self.gastanklimit
AdmitByGas(level) == level < gastanklimit

\* A fixed polling interval ("just sleep for 60 seconds").
SleepMinute(level) == 60

\* playlistCheck: time.sleep(self.gastank - self.gastanklimit)
SleepTime(level) == level - gastanklimit

\* playlistCheck, urlopen(self.playlisturl) raising: nothing catches it,
\* neither here nor in run.
playlistCheckFails ==
    /\ pc = "playlistCheck"
    /\ pc' = "terminated"
    /\ exc' = "playlisturl"
    /\ UNCHANGED << now, starttime, controller, served, workdir, otherused,
                    locals, lasttick, slept, sleepfor, allocated, copyfails >>

\* playlistCheck, the digest differs from the stored one.
playlistChanged ==
    /\ pc = "playlistCheck"
    /\ \E b \in RemoteBodies, ft \in FetchTimes :
        /\ Md5(b) # listhash
        /\ lines' = SplitLines(b)
        /\ candidates' = Candidates(SplitLines(b))
        /\ now' = now + ft
        /\ listhash' = Md5(b)
    /\ pc' = "updatePlaylist"
    /\ slept' = FALSE
    /\ UNCHANGED << starttime, elapsedtime, gastank, filenumber, crf, preset,
                    choice, filedata, filelist, served, workdir, otherused,
                    lasttick, sleepfor, allocated, exc, copyfails >>

\* playlistCheck, the same digest and checkGas() below the limit.
playlistFill ==
    /\ pc = "playlistCheck"
    /\ \E b \in RemoteBodies, ft \in FetchTimes :
        /\ Md5(b) = listhash
        /\ AdmitByGas(CheckGas(now + ft).gastank)
        /\ lines' = SplitLines(b)
        /\ candidates' = Candidates(SplitLines(b))
        /\ now' = now + ft
        /\ gastank' = CheckGas(now + ft).gastank
        /\ elapsedtime' = CheckGas(now + ft).elapsedtime
        /\ lasttick' = now + ft
    /\ pc' = "updatePlaylist"
    /\ slept' = FALSE
    /\ UNCHANGED << starttime, listhash, filenumber, crf, preset, choice,
                    filedata, filelist, served, workdir, otherused, sleepfor,
                    allocated, exc, copyfails >>

\* playlistCheck, the same digest and checkGas() at or over the limit:
\* sleep.  time.sleep raises ValueError on a negative argument.
playlistWait ==
    /\ pc = "playlistCheck"
    /\ \E b \in RemoteBodies, ft \in FetchTimes :
        LET g == CheckGas(now + ft)
            secs == SleepTime(g.gastank)
        IN  /\ Md5(b) = listhash
            /\ ~AdmitByGas(g.gastank)
            /\ gastank' = g.gastank
            /\ elapsedtime' = g.elapsedtime
            /\ lasttick' = now + ft
            /\ sleepfor' = secs
            /\ IF secs >= 0
               THEN now' = now + ft + secs /\ pc' = "sanityCheck" /\ exc' = exc
               ELSE now' = now + ft /\ pc' = "terminated" /\ exc' = "sleep"
    /\ slept' = TRUE
    /\ UNCHANGED << starttime, listhash, filenumber, crf, preset, lines, candidates, choice,
                    filedata, filelist, served, workdir, otherused, allocated, copyfails >>

\* --------------------------------------------- updatePlaylist, processFile

\* A video named by the id before the increment.
PlayFileSameNumber(fn) == fn

\* convertFile: filecount = str(self.filenumber + 1)
PlayFileNumber(fn) == fn + 1

\* An allocation that leaves a gap.
AllocateSkipping(fn) == fn + 2

\* processFile: self.filenumber += 1
AllocateId(fn) == fn + 1

\* What a discarded attempt leaves in the working directory: the source is
\* removed again; an encode of size zero leaves the text file, out.aac and
\* the empty video.
AfterSkip(wd, reason, fn) ==
    IF reason = "zerobyte"
    THEN wd \cup {TextFile(PlayFileNumber(fn)), OutAac, WorkFile("flv", PlayFileNumber(fn), <<"media">>)}
    ELSE wd

\* updatePlaylist: the drawn line's extension is not allow-listed: continue.
pickSkipped ==
    /\ pc = "updatePlaylist"
    /\ \E c \in candidates :
        /\ ~c.allowed
        /\ choice' = c.line
    /\ UNCHANGED << pc, now, starttime, controller, lines, candidates, filedata, filelist,
                    served, workdir, otherused, observed >>

\* A discarded attempt that has used up an id.
processFileSkipsAllocated ==
    /\ pc = "updatePlaylist"
    /\ filenumber < MaxId
    /\ \E c \in candidates :
        /\ c.allowed
        /\ choice' = c.line
        /\ \E reason \in c.reasons :
            workdir' = AfterSkip(workdir, reason, filenumber)
    /\ filenumber' = filenumber + 1
    /\ UNCHANGED << pc, now, starttime, elapsedtime, gastank, listhash, crf,
                    preset, lines, candidates, filedata, filelist, served,
                    otherused, observed >>

\* updatePlaylist: processFile(choice) returns 0 before the copy.  A
\* discarded attempt lasts less than the clock's resolution.
processFileSkips ==
    /\ pc = "updatePlaylist"
    /\ \E c \in candidates :
        /\ c.allowed
        /\ choice' = c.line
        /\ \E reason \in c.reasons :
            workdir' = AfterSkip(workdir, reason, filenumber)
    /\ UNCHANGED << pc, now, starttime, controller, lines, candidates, filedata, filelist,
                    served, otherused, observed >>

\* processFile up to the return of convertFile: acquired, probed (at most
\* maxlength) and encoded in processtook seconds.
convertFileOk ==
    /\ pc = "updatePlaylist"
    /\ filenumber < MaxId
    /\ \E c \in candidates, e \in Encodes :
        /\ c.allowed
        /\ c.openable
        /\ e.duration <= maxlength
        /\ choice' = c.line
        /\ now' = now + e.processtook
        /\ filedata' = [duration |-> e.duration, processtook |-> e.processtook,
                        playfile |-> PlayFileNumber(filenumber), text |-> EmptyFile]
        /\ workdir' = (workdir \ {TextFile(PlayFileNumber(filenumber))})
                          \cup {OutAac, PlayFile(PlayFileNumber(filenumber))}
    /\ pc' = "copy"
    /\ UNCHANGED << starttime, controller, lines, candidates, filelist, served, otherused,
                    observed >>

\* A copy that fails after the id was allocated.
copyFailsAllocated ==
    /\ pc = "copy"
    /\ copyfails < MaxCopyFails
    /\ copyfails' = copyfails + 1
    /\ filenumber' = filenumber + 1
    /\ filedata' = NoData
    /\ pc' = "updatePlaylist"
    /\ UNCHANGED << now, starttime, elapsedtime, gastank, listhash, crf, preset,
                    lines, candidates, choice, filelist, served, workdir,
                    otherused, lasttick, slept, sleepfor, allocated, exc >>

\* processFile: shutil.copy raises; the except clause returns 0.  The copy
\* may have created the destination.
copyFails ==
    /\ pc = "copy"
    /\ copyfails < MaxCopyFails
    /\ copyfails' = copyfails + 1
    /\ media' \in {media, Put(media, filedata.playfile, now)}
    /\ filedata' = NoData
    /\ pc' = "updatePlaylist"
    /\ UNCHANGED << now, starttime, controller, lines, candidates, choice, filelist, chain,
                    startup, workdir, otherused, lasttick, slept, sleepfor,
                    allocated, exc >>

\* processFile: shutil.copy(playfile, mediapath + "/" + playfile)
copyOk ==
    /\ pc = "copy"
    /\ media' = Put(media, filedata.playfile, now)
    /\ pc' = "writeChain"
    /\ UNCHANGED << now, starttime, controller, locals, chain, startup, workdir,
                    otherused, observed >>

\* processFile: the id is allocated, playlist<id>.txt is opened and written
\* (buffered: the file is empty until processFile returns), the local
\* video is removed.
writeChain ==
    /\ pc = "writeChain"
    /\ filenumber' = AllocateId(filenumber)
    /\ chain' = Put(chain, filenumber', EmptyFile)
    /\ filedata' = [filedata EXCEPT
                      !.text = ChainFile(MediaAsset(filedata.playfile), filenumber' + 1)]
    /\ workdir' = workdir \ {PlayFile(filedata.playfile)}
    /\ allocated' = Append(allocated, filenumber')
    /\ pc' = "gasAdd"
    /\ UNCHANGED << now, starttime, elapsedtime, gastank, listhash, crf, preset,
                    lines, candidates, choice, filelist, media, startup, otherused, lasttick,
                    slept, sleepfor, exc, copyfails >>

\* processFile: self.gastank += float(filedata['duration'])
gasAdd ==
    /\ pc = "gasAdd"
    /\ gastank' = gastank + filedata.duration
    /\ pc' = "qualityUpdate"
    /\ UNCHANGED << now, starttime, elapsedtime, listhash, filenumber, crf,
                    preset, locals, served, workdir, otherused, observed >>

\* A cycle that advances the entry file before cleanCache.
qualityUpdateThenAdvance ==
    /\ pc = "qualityUpdate"
    /\ crf' = QualityUpdate(crf, preset, filedata.duration, filedata.processtook).crf
    /\ preset' = QualityUpdate(crf, preset, filedata.duration, filedata.processtook).preset
    /\ chain' = Put(chain, filenumber, filedata.text)
    /\ filedata' = NoData
    /\ choice' = <<>>
    /\ pc' = "updateStartup"
    /\ UNCHANGED << now, starttime, elapsedtime, gastank, listhash, filenumber,
                    lines, candidates, filelist, media, startup, workdir,
                    otherused, observed >>

\* processFile: the quality controller, then return 1: the chain file is
\* closed, and updatePlaylist leaves its loop.
qualityUpdate ==
    /\ pc = "qualityUpdate"
    /\ crf' = QualityUpdate(crf, preset, filedata.duration, filedata.processtook).crf
    /\ preset' = QualityUpdate(crf, preset, filedata.duration, filedata.processtook).preset
    /\ chain' = Put(chain, filenumber, filedata.text)
    /\ filedata' = NoData
    /\ choice' = <<>>
    /\ pc' = "cleanCache"
    /\ UNCHANGED << now, starttime, elapsedtime, gastank, listhash, filenumber,
                    lines, candidates, filelist, media, startup, workdir, otherused, observed >>

\* -------------------------------------------------------------- cleanCache

\* A removal of the chain file before the segment's.
RemovedChainBelow(number) == number - 1

\* cleanCache: os.remove(... 'playlist' + str(number) + '.txt')
RemovedChain(number) == number

\* A usage pass that pops the newest file.
UsageNewest(fl) == Last(fl)

\* cleanCache, usage pass: item = filelist.pop(0)
UsageVictim(fl) == Head(fl)

\* cleanCache: the sorted glob of the segment videos.
cleanCache ==
    /\ pc = "cleanCache"
    /\ filelist' = NaturalSort(DOMAIN media)
    /\ pc' = "agePass"
    /\ UNCHANGED << now, starttime, controller, lines, candidates, choice, filedata, served,
                    workdir, otherused, observed >>

\* The two os.remove calls of a removal: the second raises when the chain
\* file is not there, and nothing catches it.
RemovePair(number) ==
    /\ media' = Remove(media, number)
    /\ IF RemovedChain(number) \in DOMAIN chain
       THEN chain' = Remove(chain, RemovedChain(number)) /\ pc' = pc /\ exc' = exc
       ELSE chain' = chain /\ pc' = "terminated" /\ exc' = "remove"

\* An age pass that removes whatever it lists.
ageStepAll ==
    /\ pc = "agePass"
    /\ filelist # <<>>
    /\ filelist' = Tail(filelist)
    /\ RemovePair(Head(filelist))
    /\ UNCHANGED << now, starttime, controller, lines, candidates, choice,
                    filedata, startup, workdir, otherused, lasttick, slept,
                    sleepfor, allocated, copyfails >>

\* cleanCache, age pass: the next file of the list, removed when its
\* st_mtime is before time.time() - 5400.
ageStep ==
    /\ pc = "agePass"
    /\ filelist # <<>>
    /\ filelist' = Tail(filelist)
    /\ IF media[Head(filelist)] < now - Retention
       THEN RemovePair(Head(filelist))
       ELSE UNCHANGED << media, chain, pc, exc >>
    /\ UNCHANGED << now, starttime, controller, lines, candidates, choice, filedata, startup,
                    workdir, otherused, lasttick, slept, sleepfor, allocated, copyfails >>

\* cleanCache: the age pass is over; glob and sort again.
ageDone ==
    /\ pc = "agePass"
    /\ filelist = <<>>
    /\ filelist' = NaturalSort(DOMAIN media)
    /\ pc' = "usagePass"
    /\ UNCHANGED << now, starttime, controller, lines, candidates, choice, filedata, served,
                    workdir, otherused, observed >>

\* cleanCache, usage pass: over 80 percent, a file is left: remove it.
usageRemove ==
    /\ pc = "usagePass"
    /\ OverThreshold(DiskUsage)
    /\ filelist # <<>>
    /\ filelist' = SelectSeq(filelist, LAMBDA x : x # UsageVictim(filelist))
    /\ RemovePair(UsageVictim(filelist))
    /\ UNCHANGED << now, starttime, controller, lines, candidates, choice, filedata, startup,
                    workdir, otherused, lasttick, slept, sleepfor, allocated, copyfails >>

\* cleanCache, usage pass: over 80 percent and the list is empty: return,
\* without the sweep of the working directory.
usageGivesUp ==
    /\ pc = "usagePass"
    /\ OverThreshold(DiskUsage)
    /\ filelist = <<>>
    /\ pc' = "updateStartup"
    /\ UNCHANGED << now, starttime, controller, locals, served, workdir,
                    otherused, observed >>

\* cleanCache, usage pass: at or under 80 percent.
usageDone ==
    /\ pc = "usagePass"
    /\ ~OverThreshold(DiskUsage)
    /\ filelist' = <<>>
    /\ pc' = "straySweep"
    /\ UNCHANGED << now, starttime, controller, lines, candidates, choice, filedata, served,
                    workdir, otherused, observed >>

\* A sweep that keeps nothing.
InNoManifest(f) == FALSE

\* cleanCache: filename not in self.manifest, negated.
InManifest(f) == f \in manifest

\* cleanCache: every file of the working directory that the manifest does
\* not name is removed.
straySweep ==
    /\ pc = "straySweep"
    /\ workdir' = {f \in workdir : InManifest(f)}
    /\ pc' = "updateStartup"
    /\ UNCHANGED << now, starttime, controller, locals, served, otherused,
                    observed >>

\* An entry file repointed at the newest chain file.
updateStartupNewest ==
    /\ pc = "updateStartup"
    /\ chain' = Put(chain, 0, ChainFile(StartupAsset, SetMax(DOMAIN chain)))
    /\ pc' = "sanityCheck"
    /\ filelist' = <<>>
    /\ UNCHANGED << now, starttime, controller, lines, candidates, choice,
                    filedata, media, startup, workdir, otherused, observed >>

\* updateStartup: playlist0.txt is rewritten to start at the first chain
\* file after the first of the sorted list; with none, nothing changes.
\* An empty list makes the first pop raise.
updateStartup ==
    /\ pc = "updateStartup"
    /\ LET fl == NaturalSort(DOMAIN chain)
       IN  IF fl = <<>>
           THEN chain' = chain /\ pc' = "terminated" /\ exc' = "pop"
           ELSE /\ chain' = IF Tail(fl) = <<>> THEN chain
                            ELSE Put(chain, 0, ChainFile(StartupAsset, Head(Tail(fl))))
                /\ pc' = "sanityCheck"
                /\ exc' = exc
    /\ filelist' = <<>>
    /\ UNCHANGED << now, starttime, controller, lines, candidates, choice, filedata, media,
                    startup, workdir, otherused, lasttick, slept, sleepfor,
                    allocated, copyfails >>

\* ---------------------------------------------------------- specification

Next ==
    \/ sanityCheck
    \/ sanityCheckFails
    \/ playlistCheckFails
    \/ playlistChanged
    \/ playlistFill
    \/ playlistWait
    \/ pickSkipped
    \/ processFileSkips
    \/ convertFileOk
    \/ copyFails
    \/ copyOk
    \/ writeChain
    \/ gasAdd
    \/ qualityUpdate
    \/ cleanCache
    \/ ageStep
    \/ ageDone
    \/ usageRemove
    \/ usageGivesUp
    \/ usageDone
    \/ straySweep
    \/ updateStartup

Spec == Init /\ [][Next]_vars

\* The scheduling of one process: the loop of updatePlaylist keeps drawing,
\* random.choice draws every line again and again, and an acquisition and
\* encode that can succeed does succeed in the end (convertFileOk), as
\* does the copy; processFile runs to its return.
SpecFair ==
    /\ Spec
    /\ WF_vars(pickSkipped \/ processFileSkips)
    /\ SF_vars(convertFileOk)
    /\ SF_vars(copyOk)
    /\ WF_vars(writeChain \/ gasAdd \/ qualityUpdate)

\* ----------------------------------------- the quality controller by itself

\* duration and processtook of successful cycles: the ratios 1, 1.75, 2,
\* 2.25, 2.5 and 3.
QualitySamples ==
    { [duration |-> 60, processtook |-> 60],
      [duration |-> 105, processtook |-> 60],
      [duration |-> 120, processtook |-> 60],
      [duration |-> 135, processtook |-> 60],
      [duration |-> 150, processtook |-> 60],
      [duration |-> 180, processtook |-> 60] }

\* processFile, lines 261-280, of one successful cycle after another;
\* filedata keeps the duration and the wall time of the last one.
qualityCycle ==
    /\ \E e \in QualitySamples :
        /\ filedata' = [NoData EXCEPT !.duration = e.duration,
                                      !.processtook = e.processtook]
        /\ crf' = QualityUpdate(crf, preset, e.duration, e.processtook).crf
        /\ preset' = QualityUpdate(crf, preset, e.duration, e.processtook).preset
    /\ UNCHANGED << pc, now, starttime, elapsedtime, gastank, listhash,
                    filenumber, lines, candidates, choice, filelist, served,
                    workdir, otherused, observed >>

QualityNext == qualityCycle

SpecQuality == Init /\ [][QualityNext]_vars

\* ------------------------------------------------------------------ claims

\* C1: the quality factor starts at 17 and the preset index at 0, and after
\* any number of successful cycles, whatever their throughput ratios, the
\* quality factor is within [mincrf, maxcrf] = [17, 28] and the preset
\* index within [0, 8].
QualityWithinBounds ==
    /\ crf = 17 /\ preset = 0
    /\ [](crf \in mincrf..maxcrf /\ preset \in 0..MaxPreset)

\* C1: both controls at their far bounds, after they started at the near ones.
QualityAtFarBounds == crf = maxcrf /\ preset = MaxPreset

\* A playlistCheck whose fetch succeeded.
CheckStep == pc = "playlistCheck" /\ ~(pc' = "terminated" /\ exc' = "playlisturl")

\* C2: in an iteration whose fetch succeeded, a digest that differs from the
\* stored one is stored and a production cycle starts whatever the level
\* (the tank is not ticked); with the same digest the tank is ticked and a
\* production cycle starts if and only if the level returned is below the
\* limit.
AdmissionDecision ==
    [][CheckStep =>
          IF listhash' # listhash
          THEN pc' = "updatePlaylist" /\ gastank' = gastank /\ lasttick' = lasttick
          ELSE /\ lasttick' # lasttick
               /\ (pc' = "updatePlaylist") <=> (gastank' < gastanklimit)
               /\ (pc' # "updatePlaylist") => (pc' = "sanityCheck" /\ filenumber' = filenumber
                                                /\ served' = served)]_vars

\* C2: a production cycle admitted by a changed list with the tank at or
\* over the limit.
AdmittedOverLimit == pc = "updatePlaylist" /\ gastank >= gastanklimit /\ choice = <<>>

\* C3: a tick lowers the tank by exactly the wall time since the tick
\* before it (since initRun for the first), below zero too.
TickLowersByElapsed ==
    [][lasttick' # lasttick =>
          /\ lasttick' > lasttick
          /\ gastank' = gastank - (lasttick' - lasttick)
          /\ elapsedtime' = lasttick' - starttime]_vars

\* C3: an empty tank, one add of 120 seconds and a tick 4000 seconds
\* later: the level is -280 or less.
TickedBelowZero ==
    /\ allocated = <<1>>
    /\ lasttick = now
    /\ lasttick >= 4000
    /\ gastank <= -280

\* A playlistCheck that ticked and did not admit.
WaitStep == pc = "playlistCheck" /\ lasttick' # lasttick /\ pc' # "updatePlaylist"

IdsGapFree ==
    \A i \in 1..(Len(allocated) - 1) : allocated[i + 1] = allocated[i] + 1

\* C5: three appends and the loop back at its start.
ThreeAppends == Len(allocated) >= 3 /\ pc = "sanityCheck"

\* No append is under way: the states after a sanity check, an append or a
\* removal has completed.
AtBoundary ==
    pc \notin {"updatePlaylist", "copy", "writeChain", "gasAdd", "qualityUpdate"}

\* C6: when no append is under way, every media<N>.flv of the served
\* directory has its playlist<N>.txt, which names media<N>.flv.
SegmentsHaveChainFiles ==
    AtBoundary =>
        \A n \in DOMAIN media :
            n \in DOMAIN chain /\ chain[n].asset = MediaAsset(n)

\* C6: after appends and a removal, two segments are left.
PairsAfterRemoval ==
    /\ pc = "sanityCheck"
    /\ 1 \notin DOMAIN media
    /\ Cardinality(DOMAIN media) >= 2

Contiguous(S) == \A a \in S, b \in S : \A k \in a..b : k \in S

\* C7: a removal leaves no segment with a smaller id than the one removed,
\* and the ids left are a contiguous range that ends at the newest id.
RemovedInOrder ==
    [][\A n \in DOMAIN media \ DOMAIN media' :
          /\ \A m \in DOMAIN media' : m > n
          /\ Contiguous(DOMAIN media')
          /\ DOMAIN media' # {} => SetMax(DOMAIN media') = filenumber']_vars

\* C7: the usage pass has removed the oldest of three segments.
OldestRemoved ==
    /\ pc = "usagePass"
    /\ DOMAIN media = {2, 3}
    /\ filelist = <<2, 3>>

\* C8: a production cycle on the list [http://x/a.mp3, http://x/b.exe],
\* with an id left to allocate, ends with an entry encoded and appended.
EventuallyEncodes ==
    (pc = "updatePlaylist" /\ listhash = Md5(Body1) /\ filenumber < MaxId)
        ~> (pc = "cleanCache")

\* C9: a failure to fetch the list does not end the main loop.
FetchFailureCaught == ~(pc = "terminated" /\ exc = "playlisturl")

\* A step of the age pass, the usage pass or the stray sweep.
EvictionStep == pc \in {"agePass", "usagePass", "straySweep"}

\* C10 as stated: no eviction step deletes playlist0.txt, playlist1.txt or
\* startup.flv.
EvictionSparesBootstrap ==
    [][EvictionStep =>
          /\ \A n \in {0, 1} : n \in DOMAIN chain => n \in DOMAIN chain'
          /\ startup => startup']_vars

\* C10: no eviction step deletes playlist0.txt or startup.flv, and
\* playlist1.txt is deleted only as the chain file of segment 1, together
\* with media1.flv.
EvictionSparesStartup ==
    [][EvictionStep =>
          /\ 0 \in DOMAIN chain => 0 \in DOMAIN chain'
          /\ startup => startup'
          /\ (1 \in DOMAIN chain /\ 1 \notin DOMAIN chain') =>
                /\ chain[1].asset = MediaAsset(1)
                /\ 1 \in DOMAIN media /\ 1 \notin DOMAIN media'
          /\ workdir' \subseteq workdir]_vars

\* C10: segment 1 has been evicted, and playlist1.txt with it.
FirstSegmentEvicted ==
    /\ EvictionStep
    /\ 0 \in DOMAIN chain
    /\ 1 \notin DOMAIN chain
    /\ 1 \notin DOMAIN media
    /\ startup

\* C11: no eviction step removes a file of the working directory that the
\* manifest names: the stray sweep removes only files the manifest does not
\* name, the age pass and the usage pass leave the working directory as it
\* is and remove, in the served directory, only segment videos and chain
\* files.
EvictionSparesManifest ==
    [][EvictionStep =>
          /\ \A f \in workdir \ workdir' : f \notin manifest
          /\ \A f \in manifest : f \in workdir => f \in workdir'
          /\ pc # "straySweep" => workdir' = workdir
          /\ pc = "straySweep" => served' = served
          /\ startup' = startup]_vars

\* C11: the sweep after an append has removed the strays and kept the
\* files of the manifest.
SweptToManifest ==
    /\ pc = "updateStartup"
    /\ allocated # <<>>
    /\ workdir = manifest

\* C12: a step of the usage pass removes nothing and ends the pass when
\* used/total is at most 80 percent; over 80 percent it removes the video
\* and the chain file of the smallest id left, and nothing else, and
\* measures again; over 80 percent with no segment left it ends the pass
\* and raises nothing.
UsagePassRemovesOldest ==
    [][pc = "usagePass" =>
          IF 10 * DiskUsage.used <= 8 * DiskUsage.total
          THEN served' = served /\ pc' = "straySweep"
          ELSE IF DOMAIN media # {}
          THEN /\ DOMAIN media' = DOMAIN media \ {SetMin(DOMAIN media)}
               /\ DOMAIN chain' = DOMAIN chain \ {SetMin(DOMAIN media)}
               /\ \A n \in DOMAIN media' : media'[n] = media[n]
               /\ \A n \in DOMAIN chain' : chain'[n] = chain[n]
               /\ startup' = startup
               /\ pc' = "usagePass"
          ELSE served' = served /\ pc' # "terminated" /\ pc' # "usagePass"
                   /\ exc' = exc]_vars

\* C12: at 85 percent the pair of segment 1 was removed, and the pass
\* stopped at 80 percent with segments 2 and 3 left.
UsagePassStopped ==
    /\ pc = "straySweep"
    /\ otherused = 70
    /\ DOMAIN media = {2, 3}
    /\ DOMAIN chain = {0, 2, 3}

\* C13: when the copy into the served directory fails, the id counter, the
\* gas tank, crf, preset, the stored digest and the chain files are as they
\* were, and the loop of updatePlaylist draws again.
CopyFailureMutatesNothing ==
    [][(pc = "copy" /\ pc' # "writeChain") =>
          /\ filenumber' = filenumber
          /\ gastank' = gastank
          /\ elapsedtime' = elapsedtime
          /\ crf' = crf
          /\ preset' = preset
          /\ listhash' = listhash
          /\ chain' = chain
          /\ allocated' = allocated
          /\ pc' = "updatePlaylist"
          /\ candidates' = candidates]_vars

\* C13: a copy has failed, the encoded video is still in the working
\* directory, and the loop is drawing again.
RetryAfterCopyFailure ==
    /\ pc = "updatePlaylist"
    /\ copyfails > 0
    /\ filedata = NoData
    /\ PlayFile(PlayFileNumber(filenumber)) \in workdir

\* C14: a sanity check that finds no playlist0.txt writes playlist0.txt as
\* (startup.flv, playlist1.txt) and playlist1.txt as (startup.flv,
\* playlist0.txt), leaves every other chain file as it is, and sets the id
\* counter to 0.
SanityRecovery ==
    [][(pc = "sanityCheck" /\ 0 \notin DOMAIN chain) =>
          /\ DOMAIN chain' = DOMAIN chain \cup {0, 1}
          /\ chain'[0] = [asset |-> [kind |-> "startup", n |-> 0], next |-> 1]
          /\ chain'[1] = [asset |-> [kind |-> "startup", n |-> 0], next |-> 0]
          /\ chain'[chain'[0].next].next = 0
          /\ \A n \in DOMAIN chain \ {0, 1} : chain'[n] = chain[n]
          /\ filenumber' = 0]_vars

\* C14: the sanity check of a run on an empty served directory is done: the
\* two bootstrap files refer to each other and the startup asset is there.
Recovered ==
    /\ pc = "playlistCheck"
    /\ allocated = <<>>
    /\ listhash = ""
    /\ DOMAIN chain = {0, 1}
    /\ chain[0].next = 1 /\ chain[1].next = 0
    /\ startup
    /\ filenumber = 0

\* C15: updateStartup rewrites playlist0.txt as (startup.flv, the chain file
\* of the smallest id other than 0); with no chain file other than
\* playlist0.txt it changes nothing.  It changes no other file, nor the id
\* counter, nor the gas tank.
EntryAdvanced ==
    [][pc = "updateStartup" =>
          /\ IF DOMAIN chain \ {0} = {}
             THEN chain' = chain
             ELSE /\ DOMAIN chain' = DOMAIN chain
                  /\ chain'[0] = [asset |-> [kind |-> "startup", n |-> 0],
                                  next |-> SetMin(DOMAIN chain \ {0})]
                  /\ \A n \in DOMAIN chain \ {0} : chain'[n] = chain[n]
          /\ media' = media
          /\ startup' = startup
          /\ workdir' = workdir
          /\ controller' = controller
          /\ pc' = "sanityCheck"]_vars

\* C15: segment 1 is gone and the entry file starts at playlist2.txt.
EntryAtSecond ==
    /\ pc = "sanityCheck"
    /\ 1 \notin DOMAIN chain
    /\ 2 \in DOMAIN chain
    /\ chain[0].next = 2

\* ------------------------------------------------ the natural sort by itself

DigitChars == <<"0", "1", "2", "3", "4", "5", "6", "7", "8", "9">>
IsDigit(c) == \E k \in 1..10 : DigitChars[k] = c
DigitValue(c) == (CHOOSE k \in 1..10 : DigitChars[k] = c) - 1

\* str(n) of an id.
RECURSIVE Str(_)
Str(n) ==
    IF n < 10 THEN <<DigitChars[n + 1]>>
    ELSE Str(n \div 10) \o <<DigitChars[(n % 10) + 1]>>

\* int(text) of a run of digits.
RECURSIVE ToInt(_)
ToInt(text) ==
    IF text = <<>> THEN 0
    ELSE ToInt(SubSeq(text, 1, Len(text) - 1)) * 10 + DigitValue(Last(text))

\* The characters of the file names, in the order of their code points.
CodePoints ==
    <<".", "/">> \o DigitChars \o <<"a", "d", "e", "i", "l", "m", "p", "s", "t", "x", "y">>
Code(c) == CHOOSE k \in 1..Len(CodePoints) : CodePoints[k] = c

\* glob(self.mediapath + '/playlist*.txt'): the path of playlist<n>.txt.
PlaylistPath(n) ==
    <<"/", "m", "e", "d", "i", "a", "/", "p", "l", "a", "y", "l", "i", "s", "t">>
        \o Str(n) \o <<".", "t", "x", "t">>

\* re.split(r'(\d+)', text): the text between the runs of digits and the
\* runs themselves, in turn; piece is the run being read.
RECURSIVE ReSplit(_, _, _)
ReSplit(s, piece, digits) ==
    IF s = <<>> THEN (IF digits THEN <<piece, <<>>>> ELSE <<piece>>)
    ELSE IF IsDigit(Head(s)) = digits
    THEN ReSplit(Tail(s), Append(piece, Head(s)), digits)
    ELSE <<piece>> \o ReSplit(Tail(s), <<Head(s)>>, ~digits)

\* atoi: int(text) if text.isdigit() else text
atoi(text) ==
    IF text # <<>> /\ \A i \in 1..Len(text) : IsDigit(text[i])
    THEN [int |-> TRUE, num |-> ToInt(text), text |-> <<>>]
    ELSE [int |-> FALSE, num |-> 0, text |-> text]

\* A key that is the name itself.
PlainKeys(text) == <<[int |-> FALSE, num |-> 0, text |-> text]>>

\* naturalKeys: [self.atoi(c) for c in re.split(r'(\d+)', text)]
naturalKeys(text) ==
    LET parts == ReSplit(text, <<>>, FALSE)
    IN  [i \in 1..Len(parts) |-> atoi(parts[i])]

\* str < str: by code points, a proper prefix first.
TextLess(a, b) ==
    \E i \in 1..(Min2(Len(a), Len(b)) + 1) :
        /\ \A k \in 1..(i - 1) : a[k] = b[k]
        /\ \/ i > Len(a) /\ i <= Len(b)
           \/ i <= Len(a) /\ i <= Len(b) /\ Code(a[i]) < Code(b[i])

\* The elements of two keys that Python compares: int with int, str with
\* str.
ElemLess(x, y) ==
    IF x.int /\ y.int THEN x.num < y.num
    ELSE ~x.int /\ ~y.int /\ TextLess(x.text, y.text)

\* list < list: the first position that differs decides, a proper prefix
\* is smaller.
KeyLess(k1, k2) ==
    \E i \in 1..(Min2(Len(k1), Len(k2)) + 1) :
        /\ \A k \in 1..(i - 1) : k1[k] = k2[k]
        /\ \/ i > Len(k1) /\ i <= Len(k2)
           \/ i <= Len(k1) /\ i <= Len(k2) /\ ElemLess(k1[i], k2[i])

\* The first position that differs holds two ints or two strs: comparing
\* an int with a str raises TypeError.
Comparable(k1, k2) ==
    \A i \in 1..Min2(Len(k1), Len(k2)) :
        ((\A k \in 1..(i - 1) : k1[k] = k2[k]) /\ k1[i] # k2[i]) =>
            k1[i].int = k2[i].int

\* list.sort(key=self.naturalKeys) of a list of distinct keys.
SortNatural(fl) ==
    CHOOSE q \in [1..Len(fl) -> {fl[i] : i \in 1..Len(fl)}] :
        /\ \A i \in 1..Len(fl) : \E k \in 1..Len(fl) : q[k] = fl[i]
        /\ \A a \in 1..Len(fl), b \in 1..Len(fl) :
               a < b => ~KeyLess(naturalKeys(q[b]), naturalKeys(q[a]))

\* The ids whose chain files are sorted.
SortIds == {0, 1, 2, 9, 10, 11, 100}

\* The globs of at most three chain files, in any order.
Globs ==
    UNION { { q \in [1..n -> SortIds] : \A a \in 1..n, b \in 1..n : a # b => q[a] # q[b] }
            : n \in 1..3 }

\* A glob of updateStartup, not yet sorted.
InitNatural ==
    /\ pc = "updateStartup"
    /\ \E g \in Globs : filelist = [i \in 1..Len(g) |-> PlaylistPath(g[i])]
    /\ now = 0 /\ starttime = 0 /\ elapsedtime = 0 /\ gastank = 0
    /\ listhash = "" /\ crf = 17 /\ preset = 0 /\ filenumber = 0
    /\ chain = EmptyDir /\ media = EmptyDir /\ startup = FALSE
    /\ lines = <<>> /\ candidates = {} /\ choice = <<>> /\ filedata = NoData
    /\ workdir = manifest /\ otherused = 0 /\ lasttick = 0 /\ slept = FALSE
    /\ sleepfor = 0 /\ allocated = <<>> /\ exc = "none" /\ copyfails = 0

\* updateStartup line 501: filelist.sort(key=self.naturalKeys)
sortFiles ==
    /\ pc = "updateStartup"
    /\ filelist' = SortNatural(filelist)
    /\ pc' = "sorted"
    /\ UNCHANGED << now, starttime, controller, lines, candidates, choice,
                    filedata, served, workdir, otherused, observed >>

NaturalNext == sortFiles

SpecNatural == InitNatural /\ [][NaturalNext]_vars

\* The id of a path of the globs.
IdOfPath(p) == CHOOSE n \in SortIds : PlaylistPath(n) = p

\* C16: the natural key orders names by their digit runs as integers and
\* the rest as text: for ids i < j the key of playlist<i>.txt is below the
\* key of playlist<j>.txt (no int is compared with a str), and the sort by
\* that key puts a list of chain files in the order of their ids.
NaturalOrder ==
    [][pc' = "sorted" =>
          /\ \A i \in SortIds, j \in SortIds :
                i < j =>
                    /\ Comparable(naturalKeys(PlaylistPath(i)), naturalKeys(PlaylistPath(j)))
                    /\ KeyLess(naturalKeys(PlaylistPath(i)), naturalKeys(PlaylistPath(j)))
                    /\ ~KeyLess(naturalKeys(PlaylistPath(j)), naturalKeys(PlaylistPath(i)))
          /\ Len(filelist') = Len(filelist)
          /\ {filelist'[i] : i \in 1..Len(filelist')} = {filelist[i] : i \in 1..Len(filelist)}
          /\ \A a \in 1..Len(filelist'), b \in 1..Len(filelist') :
                a < b => IdOfPath(filelist'[a]) < IdOfPath(filelist'[b])]_vars

\* C16: playlist1.txt, playlist2.txt and playlist10.txt, sorted, are in
\* that order.
SortedOneTwoTen ==
    /\ pc = "sorted"
    /\ filelist = <<PlaylistPath(1), PlaylistPath(2), PlaylistPath(10)>>

\* The place of p in the order of steps q.
Rank(q, p) == CHOOSE i \in 1..Len(q) : q[i] = p
Steps(q) == {q[i] : i \in 1..Len(q)}

\* The steps of a successful cycle in the order the claim states: quality
\* controller, append, gas add, advance of the entry file, eviction.
StatedOrder ==
    << "qualityUpdate", "copy", "writeChain", "gasAdd", "updateStartup",
       "cleanCache", "agePass", "usagePass", "straySweep" >>

\* The steps of a successful cycle in the order of processFile and
\* updatePlaylist: append, gas add, quality controller, eviction, advance
\* of the entry file.
CycleOrder ==
    << "copy", "writeChain", "gasAdd", "qualityUpdate", "cleanCache",
       "agePass", "usagePass", "straySweep", "updateStartup" >>

\* A step from one step of a cycle to another goes to the next of q
\* (the usage pass may end the eviction at once), and the cycle is left
\* for the next iteration only from the last of q.
FollowsOrder(q) ==
    /\ (pc \in Steps(q) /\ pc' \in Steps(q) /\ pc' # pc) =>
           \/ Rank(q, pc') = Rank(q, pc) + 1
           \/ pc = "usagePass" /\ Rank(q, pc') = Rank(q, pc) + 2
    /\ (pc \in Steps(q) /\ pc' = "sanityCheck") => Rank(q, pc) = Len(q)

SweptAfterEveryCycle ==
    pc \in {"updateStartup", "sanityCheck", "playlistCheck"} =>
        \A f \in workdir : f \in manifest

\* What a reader finds behind the asset of a chain file; a chain file that
\* is still empty refers to nothing.
AssetThere(a) ==
    CASE a.kind = "startup" -> startup
      [] a.kind = "media" -> a.n \in DOMAIN media
      [] OTHER -> TRUE

\* C19: while the process runs, every file that playlist0.txt or another
\* chain file refers to is there, but for the chain file of the id after
\* the counter, which is not created yet; no chain file refers to a video
\* or a chain file that eviction has removed.
ReaderFindsEveryFile ==
    pc # "terminated" =>
        \A n \in DOMAIN chain :
            chain[n] # EmptyFile =>
                /\ AssetThere(chain[n].asset)
                /\ chain[n].next \in DOMAIN chain \/ chain[n].next = filenumber + 1

\* C20: a successful cycle of duration d that took t seconds (ratio d/t)
\* moves crf by +1 when the ratio is below the target, by -1 when above,
\* not at all when equal, and keeps it within [17, 28]; it leaves the
\* preset index alone when the ratio is within 0.5 of the target, and
\* otherwise moves it one step, down below the band and up above it, unless
\* it is at 0 or at 8 already.  Neither moves by more than 1.
QualityMovesOneStep ==
    [][LET d == filedata'.duration
           t == filedata'.processtook
       IN  /\ t > 0
           /\ crf' = (IF d < 2 * t THEN (IF crf < 28 THEN crf + 1 ELSE 28)
                      ELSE IF d > 2 * t THEN (IF crf > 17 THEN crf - 1 ELSE 17)
                      ELSE crf)
           /\ preset' = (IF 2 * d < 3 * t THEN (IF preset > 0 THEN preset - 1 ELSE 0)
                         ELSE IF 2 * d > 5 * t THEN (IF preset < 8 THEN preset + 1 ELSE 8)
                         ELSE preset)
           /\ crf' - crf \in {-1, 0, 1}
           /\ preset' - preset \in {-1, 0, 1}]_vars

\* C20: a cycle at ratio 1.75, below the target but inside the band, has
\* ended with crf at its upper bound and the preset where it was, at 8.
SlowInsideBand ==
    /\ filedata.duration = 105
    /\ filedata.processtook = 60
    /\ crf = maxcrf
    /\ preset = MaxPreset

\* C21: a pick that ends without an encode to copy (the acquisition or the
\* extraction failed, the title or the duration is missing, the duration
\* is over maxlength, the encode is empty) leaves filenumber, gastank, crf,
\* preset and the served directory as they were, and updatePlaylist draws
\* again.
DiscardChangesNothing ==
    [][pc = "updatePlaylist" /\ pc' # "copy"
          => /\ pc' = "updatePlaylist"
             /\ UNCHANGED << filenumber, gastank, crf, preset, chain, media,
                             startup >>]_vars

\* C21: with a segment served already, an encode of the next pick came out
\* empty and the loop is at its draw again.
DiscardedAfterEncode ==
    /\ pc = "updatePlaylist"
    /\ copyfails = 0
    /\ OutAac \in workdir
    /\ choice # <<>>
    /\ Len(allocated) >= 1
    /\ DOMAIN media # {}

\* C22: the age pass of cleanCache removes a segment only when its
\* st_mtime is more than 5400 seconds before the time of the pass, removes
\* the chain file of the same number with it and no other chain file, does
\* not end the process, and when it is over no segment that old is left.
AgePassRemovesTheOld ==
    [][pc = "agePass"
          => /\ \A n \in DOMAIN media \ DOMAIN media' :
                    media[n] < now - 5400 /\ n \notin DOMAIN chain'
             /\ DOMAIN chain \ DOMAIN chain' \subseteq DOMAIN media \ DOMAIN media'
             /\ pc' \in {"agePass", "usagePass"}
             /\ pc' = "usagePass"
                    => \A n \in DOMAIN media' : media'[n] >= now - 5400]_vars

\* C22: on a disk with room, the age pass is over, the first segment and
\* its chain file are gone and a younger segment is still there.
AgedOutFirstSegment ==
    /\ pc = "usagePass"
    /\ otherused = 0
    /\ Len(allocated) >= 2
    /\ 1 \notin DOMAIN media
    /\ 1 \notin DOMAIN chain
    /\ DOMAIN media # {}

\* ------------------------------------------------ a remote list that stays

\* playlistCheck on the first fetch: listhash is still "".
firstFetch == listhash = "" /\ playlistChanged

\* run, with a remote list whose digest differs from the stored one on the
\* first fetch only.
SteadyNext ==
    \/ sanityCheck
    \/ sanityCheckFails
    \/ playlistCheckFails
    \/ firstFetch
    \/ playlistFill
    \/ playlistWait
    \/ pickSkipped
    \/ processFileSkips
    \/ convertFileOk
    \/ copyFails
    \/ copyOk
    \/ writeChain
    \/ gasAdd
    \/ qualityUpdate
    \/ cleanCache
    \/ ageStep
    \/ ageDone
    \/ usageRemove
    \/ usageGivesUp
    \/ usageDone
    \/ straySweep
    \/ updateStartup

SpecSteady == Init /\ [][SteadyNext]_vars

\* C23: with a remote list that changes on the first fetch only, so that
\* every later production is admitted by checkGas() < gastanklimit, and
\* with convertFile discarding what is longer than maxlength, gastank is at
\* most 5400 in every reachable state.
GasTankBounded == gastank <= 5400

\* C23: a production admitted below the limit has taken the tank over it.
FilledOverLimit ==
    /\ pc = "qualityUpdate"
    /\ gastank > gastanklimit
    /\ Len(allocated) >= 2

\* ----------------------------------------------------------- a second run

\* What an earlier run leaves in the served directory when it is ended
\* between two cycles: playlist0.txt at the oldest segment lo, and the
\* segments lo..hi with their chain files, each written before this run
\* starts (at time 0).
EarlierChain(lo, hi) ==
    [n \in {0} \cup (lo..hi) |->
        IF n = 0 THEN ChainFile(StartupAsset, lo)
        ELSE ChainFile(MediaAsset(n), n + 1)]
EarlierMedia(lo, hi) == [n \in lo..hi |-> n - hi - 1]

\* The ranges lo..hi of an earlier run that leave this run two ids.
EarlierRanges ==
    { r \in (1..MaxId) \X (1..MaxId) : r[1] <= r[2] /\ r[2] <= MaxId - 2 }

\* __init__ and initRun on the served directory of an earlier run, or on
\* that of a run that ended in sanityCheck's download of the startup video.
InitRestart ==
    /\ pc = "sanityCheck"
    /\ now = 0
    /\ starttime = 0
    /\ elapsedtime = 0
    /\ gastank = 0
    /\ listhash = ""
    /\ crf = 17
    /\ preset = 0
    /\ \/ \E r \in EarlierRanges :
            /\ chain = EarlierChain(r[1], r[2])
            /\ media = EarlierMedia(r[1], r[2])
            /\ startup = TRUE
       \/ /\ chain = BootstrapChain(EmptyDir)
          /\ media = EmptyDir
          /\ startup = FALSE
    /\ filenumber = getFileNumber(chain)
    /\ lines = <<>>
    /\ candidates = {}
    /\ choice = <<>>
    /\ filedata = NoData
    /\ filelist = <<>>
    /\ workdir = manifest
    /\ otherused \in OtherUsed
    /\ lasttick = 0
    /\ slept = FALSE
    /\ sleepfor = 0
    /\ allocated = <<>>
    /\ exc = "none"
    /\ copyfails = 0

SpecRestart == InitRestart /\ [][Next]_vars

\* The segments of the earlier run: a video with its chain file, before
\* this run has appended anything.
EarlierSegments ==
    IF allocated = <<>> THEN DOMAIN media \cap DOMAIN chain ELSE {}

\* C24: until the first append of a run that starts on the served directory
\* of an earlier one, filenumber is at least the number of every segment
\* that is there, and no step writes the video or the chain file of such a
\* segment.
RestartAllocatesFresh ==
    [][\A n \in EarlierSegments :
          /\ n <= filenumber
          /\ n \in DOMAIN media' /\ media'[n] = media[n]
          /\ n \in DOMAIN chain' /\ chain'[n] = chain[n]]_vars

====
